---- MODULE Spec2Model ----
(***************************************************************************)
(* A model of prost-build/src/libprotoc.cpp: the path resolver, the        *)
(* descriptor lookup, the transitive closure collector, the BufferOutput   *)
(* bridge over a caller-owned buffer, and the ErrorPrinter.                *)
(***************************************************************************)
EXTENDS Integers, Sequences, FiniteSets, TLC

\* ---------------------------------------------------------------- bounds
\* Longest declared dependency list of one file.
MaxDeps == 2
\* Longest list of parsed root files handed to write_descriptor_set.
MaxRoots == 2
\* Most write requests (BufferOutput::Next) of one serialization.
MaxNext == 3
\* Longest list of requested input paths of one invocation.
MaxInputs == 2
\* Most reports one ErrorPrinter receives.
MaxDiags == 2

\* ------------------------------------------------------------- universes
\* Logical (virtual) file names known to the descriptor pool.  A
\* FileDescriptor is identified by its name.
Files == {"a", "b", "c"}

\* Sequences over S of length lo..hi.
SeqsOf(S, lo, hi) == UNION {[1..n -> S] : n \in lo..hi}

\* Sequences without a repeated element (a file cannot import a file twice).
NoDupSeqs(S, hi) ==
    {s \in SeqsOf(S, 0, hi) : \A i, j \in 1..Len(s) : i # j => s[i] # s[j]}

Range(s) == {s[i] : i \in 1..Len(s)}

VARIABLES
    pc,            \* position of the invocation
    deps,          \* FileDescriptor::dependency(i): file -> declared dependency list
    parsed_files,  \* the roots handed to write_descriptor_set
    root_i,        \* index of the next root of the for loop (1-based)
    stack,         \* call stack of get_transitive_deps: frames [file, i]
    already_seen,  \* std::set<const FileDescriptor*>
    back_edges,    \* history: edges examined while their target was in an active call
    output,        \* file_set.mutable_file(): the emitted FileDescriptorProtos
    len,           \* BufferOutput::len
    buffer_base,   \* BufferOutput::buffer_base ("null" is nullptr)
    cap,           \* the caller's buffer: what buffer_capacity(context) returns
    buf_size,      \* the caller's buffer: the size of the last resize it granted
    data,          \* the region the last Next returned: *data and *size
    last_op,       \* the last stream call: "none", "Next" or "BackUp"
    resize_log,    \* every resize_buffer call so far, in order
    written,       \* bytes the serializer has actually written
    status,        \* the int the extern "C" write_descriptor_set returned
    input_files,   \* the paths the caller requested
    inputs,        \* std::vector<std::string> inputs, rewritten in place
    stderr_out,    \* what make_inputs_relative printed to stderr
    found_errors_,   \* ErrorPrinter::found_errors_
    found_warnings_, \* ErrorPrinter::found_warnings_
    cerr,          \* lines the ErrorPrinter wrote to std::cerr
    clog,          \* lines the ErrorPrinter wrote to std::clog
    reports,       \* history: every report received, as its entry point got it
    seen_error,    \* origin kinds that have reported an error
    seen_warning   \* origin kinds that have reported a warning

front_vars == <<input_files, inputs, stderr_out>>
diag_vars == <<found_errors_, found_warnings_, cerr, clog, reports, seen_error, seen_warning>>
closure_vars == <<deps, parsed_files, root_i, stack, already_seen, back_edges, output>>
buffer_vars == <<len, buffer_base, cap, buf_size, data, last_op, resize_log, written>>

vars == <<pc, front_vars, closure_vars, buffer_vars, diag_vars, status>>

\* ------------------------------------------------ get_transitive_deps
dependency_count(file) == Len(deps[file])

\* dependency(i) with the code's 0-based index.
dependency(file, i) == deps[file][i + 1]

\* file->CopyTo, CopyJsonNameTo, CopySourceCodeInfoTo into a new descriptor.
CopyTo(file, include_json_name, include_source_code_info) ==
    [file |-> file,
     json_name |-> include_json_name,
     source_code_info |-> include_source_code_info]

\* already_seen->insert(file).second
InsertIsNew(file, seen) == file \notin seen

\* An entry that descends first and would mark the file only on the way out.
Enter_markLate(file, seen, stk) ==
    IF InsertIsNew(file, seen)
    THEN /\ already_seen' = seen
         /\ stack' = Append(stk, [file |-> file, i |-> 0])
    ELSE /\ already_seen' = seen
         /\ stack' = stk
\* Entry of get_transitive_deps(file): return at once when the file was seen,
\* else mark it and start its dependency loop at i = 0.
Enter(file, seen, stk) ==
    IF InsertIsNew(file, seen)
    THEN /\ already_seen' = seen \cup {file}
         /\ stack' = Append(stk, [file |-> file, i |-> 0])
    ELSE /\ already_seen' = seen
         /\ stack' = stk

Top == stack[Len(stack)]
Pop == SubSeq(stack, 1, Len(stack) - 1)

\* A visited set declared inside the loop over the roots: empty at each root.
SeenAtRoot_perRoot == {}
\* `&already_seen`, declared before the loop over the roots: the set one root
\* starts from is the set the roots before it left.
SeenAtRoot == already_seen

\* write_descriptor_set: one iteration of `for (parsed : parsed_files)`,
\* calling get_transitive_deps on the root.
CallRoot ==
    /\ pc = "closure"
    /\ stack = <<>>
    /\ root_i <= Len(parsed_files)
    /\ root_i' = root_i + 1
    /\ Enter(parsed_files[root_i], SeenAtRoot, <<>>)
    /\ UNCHANGED <<pc, deps, parsed_files, back_edges, output, buffer_vars, front_vars, diag_vars, status>>

\* A loop bound that is one too small: the last dependency is not visited.
InLoop_skipsLast(frame) == frame.i < dependency_count(frame.file) - 1
\* `i < file->dependency_count()`: the frame is still inside its loop.
InLoop(frame) == frame.i < dependency_count(frame.file)

\* One iteration of the dependency loop: the recursive call on dependency(i).
Descend ==
    /\ pc = "closure"
    /\ stack # <<>>
    /\ InLoop(Top)
    /\ LET f == Top.file
           i == Top.i
           stepped == [stack EXCEPT ![Len(stack)].i = i + 1]
       IN /\ Enter(dependency(f, i), already_seen, stepped)
          /\ back_edges' = IF \E k \in 1..Len(stack) : stack[k].file = dependency(f, i)
                           THEN back_edges \cup {<<f, dependency(f, i)>>}
                           ELSE back_edges
    /\ UNCHANGED <<pc, deps, parsed_files, root_i, output, buffer_vars, front_vars, diag_vars, status>>

\* An Add that keeps the repeated field ordered by the identity of the node,
\* as a container ordered by address would.
Add_byIdentity(out, descriptor) ==
    LET address == [f \in {"a", "b", "c"} |-> CASE f = "a" -> 1 [] f = "b" -> 2 [] OTHER -> 3]
        below == SelectSeq(out, LAMBDA d : address[d.file] <= address[descriptor.file])
        above == SelectSeq(out, LAMBDA d : address[d.file] > address[descriptor.file])
    IN below \o <<descriptor>> \o above
\* An Add that puts the new descriptor first.
Add_front(out, descriptor) == <<descriptor>> \o out
\* `output->Add()` filled by the copies: the new descriptor goes last.
Add(out, descriptor) == Append(out, descriptor)

\* After the loop: output->Add() and the copies, then return to the caller.
Emit ==
    /\ pc = "closure"
    /\ stack # <<>>
    /\ ~InLoop(Top)
    /\ output' = Add(output, CopyTo(Top.file, TRUE, TRUE))
    /\ stack' = Pop
    /\ UNCHANGED <<pc, deps, parsed_files, root_i, already_seen, back_edges, buffer_vars, front_vars, diag_vars, status>>

\* The for loop over the roots is over; serialization starts.
ClosureDone ==
    /\ pc = "closure"
    /\ stack = <<>>
    /\ root_i > Len(parsed_files)
    /\ pc' = "serialize"
    /\ UNCHANGED <<closure_vars, buffer_vars, front_vars, diag_vars, status>>

\* get_transitive_deps as the recursive function it is written as, over a
\* dependency graph passed in: the visited set and the output it returns are
\* the two out-parameters after the call.  The loop over the dependencies is
\* get_transitive_deps_loop, from index i on.
RECURSIVE get_transitive_deps(_, _, _, _)
RECURSIVE get_transitive_deps_loop(_, _, _, _)
get_transitive_deps(graph, file, seen, out) ==
    IF ~InsertIsNew(file, seen)
    THEN [seen |-> seen, out |-> out]
    ELSE LET after == get_transitive_deps_loop(graph, file, 0,
                                               [seen |-> seen \cup {file}, out |-> out])
         IN [seen |-> after.seen, out |-> Add(after.out, CopyTo(file, TRUE, TRUE))]

get_transitive_deps_loop(graph, file, i, acc) ==
    IF i < Len(graph[file])
    THEN get_transitive_deps_loop(graph, file, i + 1,
             get_transitive_deps(graph, graph[file][i + 1], acc.seen, acc.out))
    ELSE acc

\* write_descriptor_set's loop over the roots from index k on, as a function
\* of the graph and the ordered roots.
RECURSIVE closure_of_roots(_, _, _, _)
closure_of_roots(graph, roots, k, acc) ==
    IF k > Len(roots)
    THEN acc
    ELSE closure_of_roots(graph, roots, k + 1,
             get_transitive_deps(graph, roots[k], acc.seen, acc.out))

\* The output sequence write_descriptor_set serializes for these roots.
file_descriptor_set(graph, roots) ==
    closure_of_roots(graph, roots, 1, [seen |-> {}, out |-> <<>>]).out

\* --------------------------------------------------------- BufferOutput
\* std::numeric_limits<int>::max()
IntMax == 2147483647
\* size_t(1024), the floor of every request
MinSize == 1024

Max(a, b) == IF a >= b THEN a ELSE b

\* The caller's buffer_capacity may start anywhere; these starts take Next
\* through the doubling branch, the floor and the slack branch.
InitCaps == {0, 100, 1500}

\* A request that doubles whatever capacity the caller reports.
NextSize_alwaysDouble(old_size, cur_cap) ==
    LET grown == old_size * 2
        clamped == IF grown - old_size > IntMax THEN old_size + IntMax ELSE grown
    IN Max(clamped, MinSize)
\* The request without `std::max(new_size, size_t(1024))`.
NextSize_noFloor(old_size, cur_cap) ==
    LET grown == IF old_size < cur_cap THEN cur_cap ELSE old_size * 2
    IN IF grown - old_size > IntMax THEN old_size + IntMax ELSE grown
\* The size Next asks resize_buffer for, from this->len and the capacity the
\* caller reports.  std::min(new_size, old_size + INT_MAX) is written with a
\* subtraction so that the sum is only formed when it is the minimum.
NextSize(old_size, cur_cap) ==
    LET grown == IF old_size < cur_cap THEN cur_cap ELSE old_size * 2
        clamped == IF grown - old_size > IntMax THEN old_size + IntMax ELSE grown
    IN Max(clamped, MinSize)

\* `*size = new_size`: the whole buffer instead of its unwritten tail.
RegionSize_whole(old_size, new_size) == new_size
\* `*size = new_size - old_size`
RegionSize(old_size, new_size) == new_size - old_size

\* Next returns true on every path.
NextReturn == TRUE

\* this->len after BackUp(count): BackUp assigns buffer_base only.
LenAfterBackUp(old_len, count) == old_len

\* ByteCount()
ByteCount == len

\* The caller's resize(context, n).  It either fails and returns nullptr,
\* leaving its buffer alone, or grants n bytes; the block moves when it has
\* to grow past the capacity, and the capacity afterwards is n or more.
Moved(base) == IF base = "m1" THEN "m2" ELSE "m1"
ResizeOutcomes(n) ==
    {[ok |-> FALSE, base |-> "null", cap |-> cap, size |-> buf_size]}
    \cup {[ok |-> TRUE,
           base |-> IF n > cap \/ buffer_base = "null" THEN Moved(buffer_base) ELSE buffer_base,
           cap |-> c, size |-> n] : c \in {n, 2 * n}}

NextCalls == Cardinality({k \in 1..Len(resize_log) : resize_log[k].op = "Next"})

\* Counts the serializer hands to BackUp: at least 1, at most the last region.
BackUpCounts(size) == {1, size}

\* BufferOutput::Next, called by the CodedOutputStream when it needs room.
Next ==
    /\ pc = "serialize"
    /\ NextCalls < MaxNext
    /\ LET old_size == len
           cur_cap == cap
           new_size == NextSize(old_size, cur_cap)
       IN \E r \in ResizeOutcomes(new_size) :
            /\ buffer_base' = r.base
            /\ cap' = r.cap
            /\ buf_size' = r.size
            /\ data' = [base |-> r.base, off |-> old_size,
                        size |-> RegionSize(old_size, new_size),
                        ret |-> NextReturn]
            /\ len' = new_size
            /\ resize_log' = Append(resize_log,
                    [op |-> "Next", old_size |-> old_size, cur_cap |-> cur_cap,
                     size |-> new_size, ok |-> r.ok])
    \* a region left without BackUp was filled to its end
    /\ written' = IF last_op = "Next" THEN written + data.size ELSE written
    /\ last_op' = "Next"
    /\ UNCHANGED <<pc, closure_vars, front_vars, diag_vars, status>>

\* A retract that asks resize for the whole committed length again.
BackUpSize_whole(old_len, count) == old_len
\* `len - count`, the size BackUp passes to resize_buffer.
BackUpSize(old_len, count) == old_len - count

\* BufferOutput::BackUp(count): the serializer gives back the last count
\* bytes of the region the preceding Next returned.
BackUp ==
    /\ pc = "serialize"
    /\ last_op = "Next"
    /\ \E count \in BackUpCounts(data.size) :
         \E r \in ResizeOutcomes(BackUpSize(len, count)) :
            /\ buffer_base' = r.base
            /\ cap' = r.cap
            /\ buf_size' = r.size
            /\ len' = LenAfterBackUp(len, count)
            /\ resize_log' = Append(resize_log,
                    [op |-> "BackUp", old_size |-> len, cur_cap |-> cap,
                     size |-> BackUpSize(len, count), ok |-> r.ok])
            /\ written' = written + data.size - count
    /\ last_op' = "BackUp"
    /\ UNCHANGED <<pc, closure_vars, front_vars, diag_vars, data, status>>

\* The serializer stores through a region derived from nullptr: undefined
\* behaviour, whose outcomes are a fault here or a run that carries on.
WriteFault ==
    /\ pc = "serialize"
    /\ last_op = "Next"
    /\ data.base = "null"
    /\ pc' = "crashed"
    /\ UNCHANGED <<closure_vars, buffer_vars, front_vars, diag_vars, status>>

\* SerializeToCodedStream is over.  It fails only when a Next returned false;
\* write_descriptor_set returns its verdict and the extern "C" entry point
\* turns it into the status.
SerializeDone ==
    /\ pc = "serialize"
    /\ pc' = "done"
    /\ status' = IF \E k \in 1..Len(resize_log) :
                       resize_log[k].op = "Next" /\ ~NextReturn
                 THEN 1 ELSE 0
    /\ UNCHANGED <<closure_vars, buffer_vars, front_vars, diag_vars>>

\* BufferOutput zero_copy_stream(output): len = 0, buffer_base = nullptr.
BufferConstructed ==
    /\ len = 0
    /\ buffer_base = "null"
    /\ buf_size = 0
    /\ data = [base |-> "null", off |-> 0, size |-> 0, ret |-> TRUE]
    /\ last_op = "none"
    /\ resize_log = <<>>
    /\ written = 0

\* ------------------------------------------------------ the source tree
\* The disk and the search roots [A, B] of the invocation, as the answers
\* DiskSourceTree and the DescriptorPool give for each string.
Paths == {"A/b", "A/bad", "B/b", "c", "B/gone", "a", "bad", "/x"}

\* source_tree->DiskFileToVirtualFile(input_file, &virtual_file, &shadowing_disk_file)
DiskFileToVirtualFile(input_file) ==
    CASE input_file = "A/b"    -> [mapping |-> "SUCCESS", virtual_file |-> "b", shadowing_disk_file |-> ""]
      [] input_file = "A/bad"  -> [mapping |-> "SUCCESS", virtual_file |-> "bad", shadowing_disk_file |-> ""]
      [] input_file = "B/b"    -> [mapping |-> "SHADOWED", virtual_file |-> "b", shadowing_disk_file |-> "A/b"]
      [] input_file = "c"      -> [mapping |-> "SHADOWED", virtual_file |-> "c", shadowing_disk_file |-> "A/c"]
      [] input_file = "B/gone" -> [mapping |-> "CANNOT_OPEN", virtual_file |-> "", shadowing_disk_file |-> ""]
      [] OTHER                 -> [mapping |-> "NO_MAPPING", virtual_file |-> "", shadowing_disk_file |-> ""]

\* source_tree->VirtualFileToDiskFile(input_file, &disk_file): the string names
\* a file under some root.
VirtualFileToDiskFile(input_file) == input_file \in Files \cup {"bad"}

\* descriptor_pool->FindFileByName(input): the descriptor, or nullptr when the
\* name is no virtual file or the file does not parse.
FindFileByName(input) == IF input \in Files THEN input ELSE "nullptr"

\* ------------------------------------------------- make_inputs_relative
\* The loop from the k-th input on: the bool returned, the vector as it is
\* left, and the lines printed.
RECURSIVE make_inputs_relative(_, _)
make_inputs_relative(ins, k) ==
    IF k > Len(ins)
    THEN [result |-> TRUE, inputs |-> ins, err |-> <<>>]
    ELSE LET input_file == ins[k]
             m == DiskFileToVirtualFile(input_file)
         IN CASE m.mapping = "SUCCESS" ->
                   make_inputs_relative([ins EXCEPT ![k] = m.virtual_file], k + 1)
              [] m.mapping = "SHADOWED" ->
                   [result |-> FALSE, inputs |-> ins,
                    err |-> <<[kind |-> "shadowed", input |-> input_file,
                               by |-> m.shadowing_disk_file]>>]
              [] m.mapping = "CANNOT_OPEN" ->
                   [result |-> FALSE, inputs |-> ins,
                    err |-> <<[kind |-> "cannot_map", input |-> input_file, by |-> ""]>>]
              [] m.mapping = "NO_MAPPING" ->
                   IF VirtualFileToDiskFile(input_file)
                   THEN [result |-> TRUE, inputs |-> ins, err |-> <<>>]
                   ELSE [result |-> FALSE, inputs |-> ins,
                         err |-> <<[kind |-> "no_include_path", input |-> input_file,
                                    by |-> ""]>>]

\* ---------------------------------------------------- parse_input_files
RECURSIVE parse_input_files(_, _, _)
parse_input_files(ins, k, parsed) ==
    IF k > Len(ins)
    THEN [result |-> TRUE, parsed_files |-> parsed]
    ELSE LET parsed_file == FindFileByName(ins[k])
         IN IF parsed_file = "nullptr"
            THEN [result |-> FALSE, parsed_files |-> parsed]
            ELSE parse_input_files(ins, k + 1, Append(parsed, parsed_file))

\* ------------------------------- extern "C" write_descriptor_set, front
\* `if (!make_inputs_relative(&inputs, source_tree.get())) return 1;`
MakeInputsRelative ==
    /\ pc = "map"
    /\ LET r == make_inputs_relative(inputs, 1)
       IN /\ inputs' = r.inputs
          /\ stderr_out' = stderr_out \o r.err
          /\ IF r.result
             THEN pc' = "parse" /\ status' = status
             ELSE pc' = "done" /\ status' = 1
    /\ UNCHANGED <<input_files, closure_vars, buffer_vars, diag_vars>>

\* `if (!parse_input_files(inputs, descriptor_pool.get(), &parsed)) return 1;`
\* and, on success, the call of write_descriptor_set(parsed, output).
ParseInputFiles ==
    /\ pc = "parse"
    /\ LET r == parse_input_files(inputs, 1, <<>>)
       IN IF r.result
          THEN /\ pc' = "closure"
               /\ parsed_files' = r.parsed_files
               /\ status' = status
          ELSE /\ pc' = "done"
               /\ parsed_files' = parsed_files
               /\ status' = 1
    /\ UNCHANGED <<front_vars, deps, root_i, stack, already_seen, back_edges, output,
                   buffer_vars, diag_vars>>

\* ---------------------------------------------------------- ErrorPrinter
FileNames == {"a.proto"}
Lines == {-1, 0, 6}
Columns == {0, 3}
Messages == {"msg"}

\* A line that shows the 0-based position as it was reported.
FormatLine_zeroBased(filename, line, column, message, type) ==
    [source |-> filename,
     location |-> IF line # -1 THEN <<line, column>> ELSE <<>>,
     prefix |-> IF type = "warning" THEN ": warning: " ELSE ": ",
     message |-> message]
\* The line AddErrorOrWarning writes: the filename, ":line+1:column+1" unless
\* line is -1, then ": warning: " or ": " and the message.
FormatLine(filename, line, column, message, type) ==
    [source |-> filename,
     location |-> IF line # -1 THEN <<line + 1, column + 1>> ELSE <<>>,
     prefix |-> IF type = "warning" THEN ": warning: " ELSE ": ",
     message |-> message]

\* ErrorPrinter::AddErrorOrWarning(filename, line, column, message, type, out)
AddErrorOrWarning(filename, line, column, message, type, out) ==
    IF out = "cerr"
    THEN /\ cerr' = Append(cerr, FormatLine(filename, line, column, message, type))
         /\ clog' = clog
    ELSE /\ clog' = Append(clog, FormatLine(filename, line, column, message, type))
         /\ cerr' = cerr

MoreDiags == Len(cerr) + Len(clog) < MaxDiags

\* The record of one report: which interface it came through, its severity
\* and the source, position and message that interface was given.
Report(origin, severity, source, line, column, message) ==
    [origin |-> origin, severity |-> severity, source |-> source,
     line |-> line, column |-> column, message |-> message]

not_diag_vars == <<pc, front_vars, closure_vars, buffer_vars, status>>

\* MultiFileErrorCollector::AddError(filename, line, column, message)
MultiFileAddError ==
    /\ MoreDiags
    /\ \E filename \in FileNames, line \in Lines, column \in Columns, message \in Messages :
         /\ AddErrorOrWarning(filename, line, column, message, "error", "cerr")
         /\ reports' = Append(reports, Report("multi_file", "error", filename, line, column, message))
    /\ found_errors_' = TRUE
    /\ seen_error' = seen_error \cup {"multi_file"}
    /\ UNCHANGED <<found_warnings_, seen_warning, not_diag_vars>>

\* MultiFileErrorCollector::AddWarning(filename, line, column, message)
MultiFileAddWarning ==
    /\ MoreDiags
    /\ \E filename \in FileNames, line \in Lines, column \in Columns, message \in Messages :
         /\ AddErrorOrWarning(filename, line, column, message, "warning", "clog")
         /\ reports' = Append(reports, Report("multi_file", "warning", filename, line, column, message))
    /\ found_warnings_' = TRUE
    /\ seen_warning' = seen_warning \cup {"multi_file"}
    /\ UNCHANGED <<found_errors_, seen_error, not_diag_vars>>

\* io::ErrorCollector::AddError(line, column, message): forwards to the
\* four-argument AddError with the filename "input".
TokenizerAddError ==
    /\ MoreDiags
    /\ \E line \in Lines, column \in Columns, message \in Messages :
         /\ AddErrorOrWarning("input", line, column, message, "error", "cerr")
         /\ reports' = Append(reports, Report("tokenizer", "error", "input", line, column, message))
    /\ found_errors_' = TRUE
    /\ seen_error' = seen_error \cup {"tokenizer"}
    /\ UNCHANGED <<found_warnings_, seen_warning, not_diag_vars>>

\* io::ErrorCollector::AddWarning(line, column, message): calls
\* AddErrorOrWarning itself.
TokenizerAddWarning ==
    /\ MoreDiags
    /\ \E line \in Lines, column \in Columns, message \in Messages :
         /\ AddErrorOrWarning("input", line, column, message, "warning", "clog")
         /\ reports' = Append(reports, Report("tokenizer", "warning", "input", line, column, message))
    /\ seen_warning' = seen_warning \cup {"tokenizer"}
    /\ UNCHANGED <<found_errors_, found_warnings_, seen_error, not_diag_vars>>

\* DescriptorPool::ErrorCollector::AddError(filename, element_name,
\* descriptor, location, message): calls AddErrorOrWarning itself.
PoolAddError ==
    /\ MoreDiags
    /\ \E filename \in FileNames, message \in Messages :
         /\ AddErrorOrWarning(filename, -1, -1, message, "error", "cerr")
         /\ reports' = Append(reports, Report("pool", "error", filename, -1, -1, message))
    /\ seen_error' = seen_error \cup {"pool"}
    /\ UNCHANGED <<found_errors_, found_warnings_, seen_warning, not_diag_vars>>

\* DescriptorPool::ErrorCollector::AddWarning(filename, element_name,
\* descriptor, location, message): calls AddErrorOrWarning itself.
PoolAddWarning ==
    /\ MoreDiags
    /\ \E filename \in FileNames, message \in Messages :
         /\ AddErrorOrWarning(filename, -1, -1, message, "warning", "clog")
         /\ reports' = Append(reports, Report("pool", "warning", filename, -1, -1, message))
    /\ seen_warning' = seen_warning \cup {"pool"}
    /\ UNCHANGED <<found_errors_, found_warnings_, seen_error, not_diag_vars>>

FoundErrors == found_errors_
FoundWarnings == found_warnings_

\* ErrorPrinter(): found_errors_(false), found_warnings_(false)
ErrorPrinterConstructed ==
    /\ found_errors_ = FALSE
    /\ found_warnings_ = FALSE
    /\ cerr = <<>>
    /\ clog = <<>>
    /\ reports = <<>>
    /\ seen_error = {}
    /\ seen_warning = {}

\* No paths requested: the state of the front end in the component runs.
NoFront ==
    /\ input_files = <<>>
    /\ inputs = <<>>
    /\ stderr_out = <<>>

\* ------------------------------------------------ the buffer bridge alone
SampleDeps == [f \in Files |->
    IF f = "a" THEN <<"b", "c">> ELSE IF f = "b" THEN <<"c">> ELSE <<>>]

InitBuffer ==
    /\ pc = "serialize"
    /\ deps = SampleDeps
    /\ parsed_files = <<"a">>
    /\ root_i = 2
    /\ stack = <<>>
    /\ already_seen = Files
    /\ back_edges = {}
    /\ output = <<CopyTo("c", TRUE, TRUE), CopyTo("b", TRUE, TRUE), CopyTo("a", TRUE, TRUE)>>
    /\ BufferConstructed
    /\ cap \in InitCaps
    /\ status = -1
    /\ NoFront
    /\ ErrorPrinterConstructed

NextBuffer == Next \/ BackUp \/ WriteFault \/ SerializeDone

SpecBuffer == InitBuffer /\ [][NextBuffer]_vars

\* ------------------------------------- Next at the edge of the integers
\* Next's arithmetic at its own widths, scaled down so that every length and
\* capacity can be enumerated: size_t has SizeBits bits, int has IntBits bits
\* and the floor is 2^FloorBits, in the order of the real 64, 32 and 10.
SizeBits == 7
IntBits == 5
FloorBits == 2

\* size_t arithmetic wraps at SizeModW.
SizeModW == 2 ^ SizeBits
\* std::numeric_limits<int>::max() at IntBits bits
IntMaxW == 2 ^ (IntBits - 1) - 1
\* size_t(1024) at the scaled floor
MinSizeW == 2 ^ FloorBits

Min(a, b) == IF a <= b THEN a ELSE b

\* The request without the std::min against old_size + INT_MAX.
NextSizeW_noClamp(old_size, cur_cap) ==
    LET grown == IF old_size < cur_cap THEN cur_cap ELSE (old_size * 2) % SizeModW
    IN Max(grown, MinSizeW)
\* new_size as Next computes it, every size_t operation taken modulo SizeModW.
NextSizeW(old_size, cur_cap) ==
    LET grown == IF old_size < cur_cap THEN cur_cap ELSE (old_size * 2) % SizeModW
        clamped == Min(grown, (old_size + IntMaxW) % SizeModW)
    IN Max(clamped, MinSizeW)

\* `*size = new_size - old_size`: a size_t difference converted to int, which
\* keeps the low IntBits bits as a two's complement number.
RegionSizeW(old_size, new_size) ==
    LET diff == (new_size - old_size + SizeModW) % SizeModW
        low == diff % (2 ^ IntBits)
    IN IF low > IntMaxW THEN low - 2 ^ IntBits ELSE low

\* One Next on a stream whose committed length and whose caller's capacity
\* are anything the scaled size_t can hold.
NextW ==
    /\ pc = "serialize"
    /\ last_op = "none"
    /\ LET old_size == len
           cur_cap == cap
           new_size == NextSizeW(old_size, cur_cap)
       IN \E ok \in BOOLEAN :
            /\ buffer_base' = IF ok THEN "m1" ELSE "null"
            /\ cap' = IF ok THEN Max(cap, new_size) ELSE cap
            /\ buf_size' = IF ok THEN new_size ELSE buf_size
            /\ data' = [base |-> IF ok THEN "m1" ELSE "null", off |-> old_size,
                        size |-> RegionSizeW(old_size, new_size),
                        ret |-> NextReturn]
            /\ len' = new_size
            /\ resize_log' = Append(resize_log,
                    [op |-> "Next", old_size |-> old_size, cur_cap |-> cur_cap,
                     size |-> new_size, ok |-> ok])
    /\ last_op' = "Next"
    /\ UNCHANGED <<pc, written, closure_vars, front_vars, diag_vars, status>>

\* Committed lengths are those whose double still fits a size_t: a buffer
\* cannot hold more than half the address space.
InitNextW ==
    /\ pc = "serialize"
    /\ deps = SampleDeps
    /\ parsed_files = <<"a">>
    /\ root_i = 2
    /\ stack = <<>>
    /\ already_seen = Files
    /\ back_edges = {}
    /\ output = <<CopyTo("c", TRUE, TRUE), CopyTo("b", TRUE, TRUE), CopyTo("a", TRUE, TRUE)>>
    /\ len \in 0..(SizeModW \div 2 - 1)
    /\ cap \in 0..(SizeModW - 1)
    /\ buffer_base = "m1"
    /\ buf_size = len
    /\ data = [base |-> "null", off |-> 0, size |-> 0, ret |-> TRUE]
    /\ last_op = "none"
    /\ resize_log = <<>>
    /\ written = len
    /\ status = -1
    /\ NoFront
    /\ ErrorPrinterConstructed

NextNextW == NextW \/ SerializeDone

SpecNextW == InitNextW /\ [][NextNextW]_vars

\* ------------------------------------------- the closure collector alone
Graphs == [Files -> NoDupSeqs(Files, MaxDeps)]

InitClosure ==
    /\ BufferConstructed
    /\ cap = 0
    /\ status = -1
    /\ NoFront
    /\ ErrorPrinterConstructed
    /\ pc = "closure"
    /\ deps \in Graphs
    /\ parsed_files \in SeqsOf(Files, 1, MaxRoots)
    /\ root_i = 1
    /\ stack = <<>>
    /\ already_seen = {}
    /\ back_edges = {}
    /\ output = <<>>

NextClosure == CallRoot \/ Descend \/ Emit \/ ClosureDone

SpecClosure == InitClosure /\ [][NextClosure]_vars

\* The traversal is one sequential call: whenever it can take a step, it does.
SpecClosureFair == InitClosure /\ [][NextClosure]_vars /\ WF_vars(NextClosure)

\* ------------------------------------------------- the ErrorPrinter alone
InitDiag ==
    /\ pc = "diag"
    /\ ErrorPrinterConstructed
    /\ NoFront
    /\ BufferConstructed
    /\ cap = 0
    /\ status = -1
    /\ deps = SampleDeps
    /\ parsed_files = <<>>
    /\ root_i = 1
    /\ stack = <<>>
    /\ already_seen = {}
    /\ back_edges = {}
    /\ output = <<>>

NextDiag ==
    \/ MultiFileAddError
    \/ MultiFileAddWarning
    \/ TokenizerAddError
    \/ TokenizerAddWarning
    \/ PoolAddError
    \/ PoolAddWarning

SpecDiag == InitDiag /\ [][NextDiag]_vars

\* ------------------------------------------------- the whole invocation
\* extern "C" write_descriptor_set(input_files, num_inputs, includes_paths,
\* num_includes, output): the vectors are built and the source tree mapped.
Init ==
    /\ pc = "map"
    /\ input_files \in SeqsOf(Paths, 0, MaxInputs)
    /\ inputs = input_files
    /\ stderr_out = <<>>
    /\ ErrorPrinterConstructed
    /\ BufferConstructed
    /\ cap = 0
    /\ status = -1
    /\ deps = SampleDeps
    /\ parsed_files = <<>>
    /\ root_i = 1
    /\ stack = <<>>
    /\ already_seen = {}
    /\ back_edges = {}
    /\ output = <<>>

NextInvocation ==
    \/ MakeInputsRelative
    \/ ParseInputFiles
    \/ CallRoot
    \/ Descend
    \/ Emit
    \/ ClosureDone
    \/ Next
    \/ BackUp
    \/ WriteFault
    \/ SerializeDone

Spec == Init /\ [][NextInvocation]_vars

\* --------------------------------------------------- graph vocabulary
\* Files reachable from the set S along dependency edges (S included).
RECURSIVE ReachFrom(_)
ReachFrom(S) ==
    LET T == S \cup UNION {Range(deps[f]) : f \in S}
    IN IF T = S THEN S ELSE ReachFrom(T)

Acyclic == \A f \in Files : \A d \in Range(deps[f]) : f \notin ReachFrom({d})

OutputFiles == [i \in 1..Len(output) |-> output[i].file]

IndexOf(f) == CHOOSE i \in 1..Len(output) : output[i].file = f

\* ------------------------------------------------------------ C1, C2
\* C1: on an acyclic dependency graph, once write_descriptor_set has run
\* get_transitive_deps over all roots, every file in the output has each of
\* its dependencies at a strictly earlier index of the output.
C1_DepsBeforeDependents ==
    (pc = "serialize" /\ Acyclic) =>
        \A i \in 1..Len(output) :
            \A d \in Range(deps[output[i].file]) :
                \E j \in 1..(i - 1) : output[j].file = d

\* A finished run over an acyclic diamond: some file has two dependencies and
\* all three files were emitted.
C1_Witness ==
    /\ pc = "serialize"
    /\ Acyclic
    /\ Len(output) = 3
    /\ \E f \in Files : Len(deps[f]) = 2 /\ \E d \in Range(deps[f]) : deps[d] # <<>>

\* C2: the finished output holds exactly the files reachable from the roots,
\* each exactly once, whatever the number of roots or paths reaching a file.
C2_ExactlyReachableOnce ==
    pc = "serialize" =>
        /\ Range(OutputFiles) = ReachFrom(Range(parsed_files))
        /\ \A i, j \in 1..Len(output) : output[i].file = output[j].file => i = j

\* A finished run with two different roots where the second root is also a
\* dependency reached from the first one, and a file has two dependents.
C2_Witness ==
    /\ pc = "serialize"
    /\ Len(parsed_files) = 2
    /\ parsed_files[1] # parsed_files[2]
    /\ parsed_files[2] \in ReachFrom(Range(deps[parsed_files[1]]))
    /\ \E d \in Files : Cardinality({f \in Files : d \in Range(deps[f])}) >= 2
    /\ Len(output) = 3

\* ---------------------------------------------------- buffer vocabulary
LastResize == resize_log[Len(resize_log)]

NextGotNull ==
    \E k \in 1..Len(resize_log) : resize_log[k].op = "Next" /\ ~resize_log[k].ok

\* --------------------------------------------------------------- C3
\* C3: after Next calls followed by BackUp(count), the length ByteCount
\* reports equals the number of bytes actually written: the retract has
\* shrunk the logical length by count.
C3_ByteCountAfterBackUp ==
    last_op = "BackUp" => ByteCount = written

\* --------------------------------------------------------------- C4
\* C4: when the caller's resize returns nullptr, Next fails and the
\* invocation ends with status 1: it never reports success, and the
\* serializer is never handed a region derived from the null address.
C4_NullResizeAborts ==
    /\ (last_op = "Next" /\ data.base = "null") => ~data.ret
    /\ (pc = "done" /\ NextGotNull) => status = 1

\* --------------------------------------------------------------- C8
\* C8: the region [off, off + size) a Next returns lies inside [0, S), S the
\* size passed to the most recent resize call, and starts at or after every
\* byte already written.
C8_RegionInsideGrant ==
    last_op = "Next" =>
        /\ 0 <= data.off
        /\ data.off + data.size <= LastResize.size
        /\ written <= data.off

\* A Next that follows a BackUp and returns a region past offset 0.
C8_Witness ==
    /\ last_op = "Next"
    /\ data.off > 0
    /\ Len(resize_log) >= 3
    /\ resize_log[Len(resize_log) - 1].op = "BackUp"
    /\ LastResize.ok

\* --------------------------------------------------------------- C9
\* C9: from length 0 and capacity 0, no Next asks resize for less than the
\* length committed at the call, and the first request is for at least 1024
\* bytes.
C9_NoShrinkAndFloor ==
    (resize_log # <<>> /\ resize_log[1].cur_cap = 0) =>
        /\ resize_log[1].size >= 1024
        /\ \A k \in 1..Len(resize_log) :
              resize_log[k].op = "Next" => resize_log[k].size >= resize_log[k].old_size

\* Three write requests from an empty buffer of capacity 0, the last one
\* after a BackUp.
C9_Witness ==
    /\ resize_log # <<>>
    /\ resize_log[1].cur_cap = 0
    /\ resize_log[1].old_size = 0
    /\ NextCalls >= 2
    /\ LastResize.op = "Next"
    /\ \E k \in 1..Len(resize_log) : resize_log[k].op = "BackUp"

\* ------------------------------------------------------------ C5 - C7
\* The input can be resolved to a logical name: it maps to a virtual name or
\* is interpretable as one.
MapsToLogicalName(input_file) ==
    LET m == DiskFileToVirtualFile(input_file)
    IN \/ m.mapping = "SUCCESS"
       \/ m.mapping = "NO_MAPPING" /\ VirtualFileToDiskFile(input_file)

SomeInputFailsMapping ==
    \E i \in 1..Len(input_files) : ~MapsToLogicalName(input_files[i])

\* After the mapping pass, some requested name is unknown to the pool.
SomeNameUnresolved ==
    /\ pc # "map"
    /\ \E i \in 1..Len(inputs) : FindFileByName(inputs[i]) = "nullptr"

\* C5: when a requested name cannot be resolved, or an input fails path
\* mapping, the invocation returns status 1 and resize was never invoked: the
\* buffer is not touched before every input has been mapped and resolved.
C5_FailFastBeforeBuffer ==
    (SomeNameUnresolved \/ SomeInputFailsMapping) =>
        /\ resize_log = <<>>
        /\ pc = "done" => status = 1

\* The part of C5 about the Resolution Service alone: a name the pool does
\* not resolve ends the invocation with status 1 and no resize call.
UnresolvedNameFailsFast ==
    SomeNameUnresolved =>
        /\ resize_log = <<>>
        /\ pc \in {"parse", "done"}
        /\ pc = "done" => status = 1

\* C6: make_inputs_relative returns true only if every requested input was
\* resolved to a logical name; with a shadowed, unopenable or unmappable
\* input in the batch it returns false.
C6_TrueOnlyIfAllMapped ==
    pc = "parse" => ~SomeInputFailsMapping

\* C7: an invocation with a shadowed input fails with status 1 and prints the
\* shadowing diagnostic naming the input and the shadowing file; neither
\* descriptor resolution nor a buffer write follows.
C7_ShadowedInputFails ==
    \A i \in 1..Len(input_files) :
        LET m == DiskFileToVirtualFile(input_files[i])
        IN (m.mapping = "SHADOWED" /\ pc # "map") =>
              /\ pc = "done"
              /\ status = 1
              /\ resize_log = <<>>
              /\ \E k \in 1..Len(stderr_out) :
                    /\ stderr_out[k].kind = "shadowed"
                    /\ stderr_out[k].input = input_files[i]
                    /\ stderr_out[k].by = m.shadowing_disk_file

\* -------------------------------------------------------------- C10
\* C10: FoundErrors is true once an error arrived through any of the three
\* origin kinds, FoundWarnings once a warning did, and neither is reset.
C10_FoundFlagsTrack ==
    /\ seen_error # {} => FoundErrors
    /\ seen_warning # {} => FoundWarnings

\* The flags are never reset once set.
FoundFlagsMonotonic ==
    [][(found_errors_ => found_errors_') /\ (found_warnings_ => found_warnings_')]_vars

\* ---------------------------------------------------------------- C11
IsPrefix(s, t) == Len(s) <= Len(t) /\ SubSeq(t, 1, Len(s)) = s

AllButLast(s) == SubSeq(s, 1, Len(s) - 1)

\* C11: the output for the roots without the last one is a prefix of the
\* output the run over all the roots ends with: one more root at the end only
\* appends entries.
C11_ExtraRootOnlyAppends ==
    (pc = "serialize" /\ parsed_files # <<>>) =>
        IsPrefix(file_descriptor_set(deps, AllButLast(parsed_files)), output)

\* Two roots with disjoint closures, the second one adding more than itself.
C11_Witness ==
    /\ pc = "serialize"
    /\ Len(parsed_files) = 2
    /\ ReachFrom({parsed_files[1]}) \cap ReachFrom({parsed_files[2]}) = {}
    /\ file_descriptor_set(deps, AllButLast(parsed_files)) # <<>>
    /\ Len(output) > Len(file_descriptor_set(deps, AllButLast(parsed_files))) + 1

\* ---------------------------------------------------------------- C12
\* Another identity for every node: a bijection on the files.
Renamings == {r \in [Files -> Files] : \A f, g \in Files : r[f] = r[g] => f = g}

RenameGraph(r, graph) ==
    [x \in Files |-> LET f == CHOOSE f \in Files : r[f] = x
                     IN [k \in 1..Len(graph[f]) |-> r[graph[f][k]]]]

RenameFiles(r, files) == [k \in 1..Len(files) |-> r[files[k]]]

RenameOutput(r, out) == [k \in 1..Len(out) |-> [out[k] EXCEPT !.file = r[@]]]

C13_TerminatesOnCycles ==
    /\ <>(pc = "serialize")
    /\ [](\A k \in 1..Len(stack) : stack[k].file \in already_seen)
    /\ [](\A j, k \in 1..Len(stack) : stack[j].file = stack[k].file => j = k)
    /\ []((pc = "serialize" /\ ~Acyclic) =>
             /\ Range(OutputFiles) = ReachFrom(Range(parsed_files))
             /\ Cardinality(Range(OutputFiles)) = Len(output))

\* A finished run from a file that depends on itself and lies on a longer
\* cycle too, with all three files emitted.
C13_Witness ==
    /\ pc = "serialize"
    /\ \E f \in Range(parsed_files) :
           /\ f \in Range(deps[f])
           /\ \E d \in Range(deps[f]) \ {f} : f \in ReachFrom({d})
    /\ Len(output) = 3

\* ---------------------------------------------------------------- C14
\* C14: a Next that follows BackUp(count) returns the region that starts at
\* the first unwritten byte, base + (previous length - count), the size the
\* BackUp gave to resize: the committed bytes stay contiguous.
C14_NextResumesAtRetractedLength ==
    (last_op = "Next" /\ Len(resize_log) >= 2
        /\ resize_log[Len(resize_log) - 1].op = "BackUp") =>
        data.off = resize_log[Len(resize_log) - 1].size

\* ---------------------------------------------------------------- C15
\* Every byte of a region is written unless a BackUp gave some of it back.
TotalWritten == IF last_op = "Next" THEN written + data.size ELSE written

\* Only the last call to the stream, if any, is a BackUp.
OnlyFinalBackUp ==
    \A k \in 1..(Len(resize_log) - 1) : resize_log[k].op = "Next"

\* C15: when serialization is over after a run of Next calls ended by at most
\* one BackUp, the size given to the last resize call is the number of bytes
\* written, and a granted resize leaves the caller's buffer at that size.
C15_LastResizeIsBytesWritten ==
    (pc = "done" /\ resize_log # <<>> /\ OnlyFinalBackUp) =>
        /\ LastResize.size = TotalWritten
        /\ LastResize.ok => buf_size = TotalWritten

\* Two Next calls, then a BackUp that gives back part of the last region, all
\* resizes granted.
C15_Witness ==
    /\ pc = "done"
    /\ Len(resize_log) = 3
    /\ OnlyFinalBackUp
    /\ LastResize.op = "BackUp"
    /\ LastResize.size > resize_log[2].old_size
    /\ LastResize.size < resize_log[2].size
    /\ \A k \in 1..3 : resize_log[k].ok

\* ---------------------------------------------------------------- C16
\* C16: a Next called at committed length L with reported capacity C asks
\* resize for max(1024, C) when L < C and for max(1024, 2*L) otherwise, sets
\* the length to the size asked for and returns offset L with the size asked
\* for minus L.
C16_RequestAndRegion ==
    [][(last_op' = "Next" /\ Len(resize_log') = Len(resize_log) + 1) =>
          LET L == len
              C == cap
              requested == IF L < C THEN Max(1024, C) ELSE Max(1024, 2 * L)
          IN /\ resize_log'[Len(resize_log')].size = requested
             /\ len' = requested
             /\ data'.off = L
             /\ data'.size = requested - L]_vars

\* A request that took the slack above the floor and a later one that
\* doubled a length above half the floor.
C16_Witness ==
    /\ last_op = "Next"
    /\ \E j, k \in 1..Len(resize_log) :
          /\ j < k
          /\ resize_log[j].op = "Next"
          /\ resize_log[j].old_size < resize_log[j].cur_cap
          /\ resize_log[j].size = resize_log[j].cur_cap
          /\ resize_log[k].op = "Next"
          /\ resize_log[k].old_size >= resize_log[k].cur_cap
          /\ resize_log[k].size = 2 * resize_log[k].old_size

\* ---------------------------------------------------------------- C17
\* C17: for every committed length and every capacity the caller reports, the
\* int-typed size Next returns is at least 1 and at most INT_MAX, and it is
\* the requested size minus the length, not a wrapped value.
C17_RegionFitsInt ==
    last_op = "Next" =>
        /\ data.size >= 1
        /\ data.size <= IntMaxW
        /\ data.size = LastResize.size - LastResize.old_size

\* A Next from a length above INT_MAX whose doubling was cut to the length
\* plus INT_MAX.
C17_Witness ==
    /\ last_op = "Next"
    /\ data.size = IntMaxW
    /\ LastResize.cur_cap <= LastResize.old_size
    /\ LastResize.old_size > IntMaxW

\* A Next whose reported capacity was cut to the length plus INT_MAX.
ClampedSlackReached ==
    /\ last_op = "Next"
    /\ data.size = IntMaxW
    /\ LastResize.cur_cap - LastResize.old_size > IntMaxW

\* ---------------------------------------------------------------- C18
StackFiles == {stack[k].file : k \in 1..Len(stack)}

Before(d, n) ==
    \E i, j \in 1..Len(output) : i < j /\ output[i].file = d /\ output[j].file = n

\* C18: the files visited but not yet emitted are those of the active calls,
\* and in the finished output of any graph, cyclic ones included, every
\* dependency of an emitted file comes before that file unless the edge was
\* examined while the dependency was in an active call.
C18_OnlyBackEdgesOutOfOrder ==
    /\ pc = "closure" => StackFiles = already_seen \ Range(OutputFiles)
    /\ pc = "serialize" =>
          \A n \in Range(OutputFiles) : \A d \in Range(deps[n]) :
              Before(d, n) \/ <<n, d>> \in back_edges

\* A finished run over a graph with a cycle through two files and an edge
\* that is not on it: one back edge, and dependencies emitted in order.
C18_Witness ==
    /\ pc = "serialize"
    /\ Len(output) = 3
    /\ \E e \in back_edges : e[1] # e[2]
    /\ \E n \in Files : \E d \in Range(deps[n]) : <<n, d>> \notin back_edges /\ Before(d, n)

\* ---------------------------------------------------------------- C19
\* The line the format `<source>[:<line+1>:<column+1>]: [warning: ]<message>`
\* prescribes for a report.
PrescribedLine(r) ==
    [source |-> r.source,
     location |-> IF r.line = -1 THEN <<>> ELSE <<r.line + 1, r.column + 1>>,
     prefix |-> IF r.severity = "warning" THEN ": warning: " ELSE ": ",
     message |-> r.message]

\* C19: in the step in which a report arrives, from any of the three
\* interfaces, exactly one line is written: the prescribed one, with the
\* location present exactly when the line is not -1; an error goes to the
\* error stream and leaves the warning stream alone, a warning the reverse.
C19_OneFormattedLinePerReport ==
    [][reports' # reports =>
          LET r == reports'[Len(reports')]
          IN /\ reports' = Append(reports, r)
             /\ r.severity = "error" =>
                   cerr' = Append(cerr, PrescribedLine(r)) /\ clog' = clog
             /\ r.severity = "warning" =>
                   clog' = Append(clog, PrescribedLine(r)) /\ cerr' = cerr]_vars

\* A pool error without a location on the error stream and a tokenizer
\* warning with a location on the warning stream.
C19_Witness ==
    /\ \E k \in 1..Len(reports) :
          reports[k].origin = "pool" /\ reports[k].severity = "error"
    /\ \E k \in 1..Len(reports) :
          reports[k].origin = "tokenizer" /\ reports[k].severity = "warning"
              /\ reports[k].line = 6
    /\ Len(cerr) = 1 /\ cerr[1].location = <<>>
    /\ Len(clog) = 1 /\ clog[1].location = <<7, 4>> /\ clog[1].source = "input"

====
